---- MODULE Spec2Model ----
(***************************************************************************)
(* Certificate authentication gateway of the Certificate-Based             *)
(* Authentication Demo: the whitelist store (loadWhitelist,                *)
(* getClientFingerprint, checkCertificateWhitelist), the Express           *)
(* middleware validateClientCertificate and the request pipeline of the    *)
(* HTTPS server that mounts it.                                            *)
(*                                                                         *)
(* JavaScript values are modelled as strings: "true", "false",             *)
(* "undefined" and ordinary string values.  Node runs every handler to     *)
(* completion on one thread, so each synchronous handler is one action.    *)
(***************************************************************************)
EXTENDS Naturals, Sequences, FiniteSets, TLC

VARIABLES
    file,             \* config/whitelist.json on disk
    whitelistConfig,  \* module-level `let whitelistConfig`
    req,              \* the request travelling through the Express pipeline
    call,             \* the last direct call of an exported whitelist function
    certs,            \* the files in the certs directory
    setup,            \* how the last run of setup-certificates.js ended
    launch,           \* the node process of the server and its position
    config,           \* the `config` object exported by server/config.js
    envConfig         \* the last call of getEnvironmentConfig

\* the variables of the whitelist and the request pipeline, and those of
\* the certificate setup, the configuration and the start-up
gateway == <<file, whitelistConfig, req, call>>
host == <<certs, setup, launch, config, envConfig>>

vars == <<file, whitelistConfig, req, call, certs, setup, launch, config, envConfig>>

-----------------------------------------------------------------------------
(* Bounds of the model *)

\* latest instant of the clock and of the certificate dates
MaxTime == 2
\* longest whitelistedCertificates list of the exhaustive document set
MaxEntries == 2

-----------------------------------------------------------------------------
(* JavaScript values *)

Undefined == "undefined"
JsTrue == "true"
JsFalse == "false"

\* ToBoolean for the scalars of the model
Truthy(v) == v \notin {JsFalse, Undefined, ""}

\* String.prototype.toLowerCase / toUpperCase on the algorithm names used
ToLowerCase(s) ==
    CASE s = "SHA256" -> "sha256"
      [] s = "SHA1" -> "sha1"
      [] s = "MD5" -> "md5"
      [] OTHER -> s

ToUpperCase(s) ==
    CASE s = "sha256" -> "SHA256"
      [] s = "sha1" -> "SHA1"
      [] s = "md5" -> "MD5"
      [] OTHER -> s

-----------------------------------------------------------------------------
(* Whitelist documents *)

Entry(fp, desc, en) == [fingerprint |-> fp, description |-> desc, enabled |-> en]

\* a parsed JSON text: kind "object" is a JSON object with the three fields
\* (a field that is absent reads as Undefined, an absent list has
\* listPresent = FALSE); "null" is the JSON text null; "falsy" is false, 0
\* or ""; "truthy" is any other scalar; "malformed" does not parse
Doc(en, alg, lp, list) ==
    [kind |-> "object", whitelistEnabled |-> en, hashAlgorithm |-> alg,
     listPresent |-> lp, whitelistedCertificates |-> list]

NonObject(k) ==
    [kind |-> k, whitelistEnabled |-> Undefined, hashAlgorithm |-> Undefined,
     listPresent |-> FALSE, whitelistedCertificates |-> <<>>]

\* JS null, the initial value of whitelistConfig
JsNull == NonObject("null")

\* { whitelistEnabled: false, whitelistedCertificates: [] }
DefaultConfig == Doc(JsFalse, Undefined, TRUE, <<>>)

Sha1Digests == {"A1", "A2"}
Sha256Digests == {"B1"}
EntryFingerprints == {"A1", "a1", "B1", Undefined}
\* a hashAlgorithm that is a JSON number instead of a string
NumberAlgorithm == "#42"
HashAlgorithms == {"sha1", "sha256", "SHA256", "md5", Undefined, NumberAlgorithm}

\* entries with a description, enabled or not, and enabled entries without
Entries ==
    {Entry(fp, "Demo client certificate", en) :
        fp \in EntryFingerprints, en \in {JsTrue, JsFalse}}
    \cup {Entry(fp, Undefined, JsTrue) : fp \in {"A1", "B1"}}

EntryLists == UNION {[1..n -> Entries] : n \in 0..MaxEntries}

\* every object document within the bounds
AllDocs ==
    {Doc(en, alg, TRUE, l) : en \in {JsTrue, JsFalse},
                             alg \in HashAlgorithms, l \in EntryLists}
    \cup {Doc(Undefined, "sha256", TRUE, l) : l \in EntryLists}
    \cup {Doc(en, alg, FALSE, <<>>) : en \in {JsTrue, JsFalse},
                                      alg \in {"sha256", Undefined}}

\* the documents an operator writes while the server runs
ServerDocs ==
    { Doc(JsTrue, "sha256", TRUE, <<Entry("B1", "Demo client certificate", JsTrue)>>),
      Doc(JsTrue, "sha256", TRUE, <<Entry("B1", "Demo client certificate", JsFalse)>>),
      Doc(JsTrue, "sha1", TRUE, <<Entry("A1", Undefined, JsTrue)>>),
      Doc(JsTrue, Undefined, TRUE, <<Entry("A2", "Demo client certificate", JsTrue)>>),
      Doc(JsFalse, "sha256", TRUE, <<Entry("B1", "Demo client certificate", JsTrue)>>),
      Doc(JsFalse, NumberAlgorithm, TRUE, <<>>),
      Doc(JsTrue, NumberAlgorithm, TRUE, <<Entry("A1", Undefined, JsTrue)>>) }

Scalars == {NonObject("malformed"), NonObject("null"), NonObject("falsy"),
            NonObject("truthy")}

\* the backing file: missing, present but unreadable, or present with a text
FileOf(state, text) == [state |-> state, text |-> text]
MissingFile == FileOf("missing", NonObject("malformed"))
UnreadableFile == FileOf("unreadable", NonObject("malformed"))

FilesOver(docs) ==
    {MissingFile, UnreadableFile} \cup {FileOf("present", t) : t \in docs \cup Scalars}

-----------------------------------------------------------------------------
(* loadWhitelist *)

\* the backing document cannot be turned into a document object
Unloadable(f) ==
    \/ f.state # "present"
    \/ f.text.kind \in {"malformed", "null"}

\* mutant: the load assigns the fields one by one and leaves the
\* hashAlgorithm of the document held before in place
loadWhitelist_keepsAlgorithm(cfg, f) ==
    IF f.state = "present" /\ f.text.kind \notin {"malformed", "null"}
    THEN [threw |-> FALSE,
          config |-> [f.text EXCEPT !.hashAlgorithm = cfg.hashAlgorithm]]
    ELSE [threw |-> FALSE, config |-> DefaultConfig]

\* mutant: a load that finds a document already held discards it for the
\* default instead of replacing it
loadWhitelist_dropsHeld(cfg, f) ==
    IF cfg.kind = "object" /\ cfg.whitelistedCertificates # <<>>
    THEN [threw |-> FALSE, config |-> DefaultConfig]
    ELSE IF f.state = "present" /\ f.text.kind \notin {"malformed", "null"}
    THEN [threw |-> FALSE, config |-> f.text]
    ELSE [threw |-> FALSE, config |-> DefaultConfig]

\* mutant: a failed load keeps the document held before the call
loadWhitelist_keepsStale(cfg, f) ==
    IF f.state = "present" /\ f.text.kind \notin {"malformed", "null"}
    THEN [threw |-> FALSE, config |-> f.text]
    ELSE [threw |-> FALSE, config |-> cfg]

\* loadWhitelist(): cfg is whitelistConfig before the call, f the backing file.
\* The try block either completes or throws; the catch block installs the
\* default.  JSON null parses, is assigned, and the logger.info argument
\* whitelistConfig.whitelistedCertificates then throws a TypeError.
loadWhitelist(cfg, f) ==
    LET tryBlock ==
            IF f.state = "missing"
            THEN [threw |-> FALSE, config |-> DefaultConfig]
            ELSE IF f.state = "unreadable"
            THEN [threw |-> TRUE, config |-> cfg]
            ELSE IF f.text.kind = "malformed"
            THEN [threw |-> TRUE, config |-> cfg]
            ELSE IF f.text.kind = "null"
            THEN [threw |-> TRUE, config |-> f.text]
            ELSE [threw |-> FALSE, config |-> f.text]
    IN  IF tryBlock.threw
        THEN [threw |-> FALSE, config |-> DefaultConfig]
        ELSE tryBlock

\* `if (!whitelistConfig) loadWhitelist()`: the lazy load at the head of
\* getClientFingerprint and checkCertificateWhitelist
IsFalsyConfig(cfg) == cfg.kind \in {"null", "falsy"}

LazyLoad(cfg, f) ==
    IF IsFalsyConfig(cfg)
    THEN [loaded |-> TRUE, config |-> loadWhitelist(cfg, f).config]
    ELSE [loaded |-> FALSE, config |-> cfg]

-----------------------------------------------------------------------------
(* getClientFingerprint and checkCertificateWhitelist *)

\* `whitelistConfig.hashAlgorithm || 'sha1'`
ConfiguredAlgorithm(cfg) ==
    IF Truthy(cfg.hashAlgorithm) THEN cfg.hashAlgorithm ELSE "sha1"

\* mutant: the SHA-1 digest is compared whatever the document configures
SelectFingerprint_sha1Only(ll, hashAlgorithm, cert) ==
    [threw |-> hashAlgorithm = NumberAlgorithm, config |-> ll.config,
     loaded |-> ll.loaded, value |-> cert.fingerprint]

\* mutant: the algorithm name is compared without toLowerCase()
SelectFingerprint_caseSensitive(ll, hashAlgorithm, cert) ==
    [threw |-> hashAlgorithm = NumberAlgorithm, config |-> ll.config,
     loaded |-> ll.loaded,
     value |-> IF hashAlgorithm = NumberAlgorithm THEN Undefined
               ELSE IF hashAlgorithm = "sha256" THEN cert.fingerprint256
               ELSE cert.fingerprint]

\* the body of getClientFingerprint after the lazy load ll: calling
\* toLowerCase on a number throws a TypeError
SelectFingerprint(ll, hashAlgorithm, cert) ==
    IF hashAlgorithm = NumberAlgorithm
    THEN [threw |-> TRUE, config |-> ll.config, loaded |-> ll.loaded,
          value |-> Undefined]
    ELSE [threw |-> FALSE, config |-> ll.config, loaded |-> ll.loaded,
          value |-> IF ToLowerCase(hashAlgorithm) = "sha256"
                    THEN cert.fingerprint256
                    ELSE cert.fingerprint]

\* `if (!whitelistConfig) loadWhitelist()` followed by the algorithm lookup
FingerprintAfterLoad(ll, cert) ==
    SelectFingerprint(ll, ConfiguredAlgorithm(ll.config), cert)

\* getClientFingerprint(clientCert): the value returned, the whitelistConfig
\* left behind and whether loadWhitelist was called
getClientFingerprint(cfg, f, cert) == FingerprintAfterLoad(LazyLoad(cfg, f), cert)

\* mutant: the disabled flag is honoured only for an empty list
WhitelistDisabled_onlyWhenEmpty(cfg) ==
    ~Truthy(cfg.whitelistEnabled) /\ cfg.whitelistedCertificates = <<>>

\* `!whitelistConfig.whitelistEnabled`
WhitelistDisabled(cfg) == ~Truthy(cfg.whitelistEnabled)

\* `whitelistConfig.whitelistedCertificates || []`
WhitelistedCerts(cfg) ==
    IF cfg.listPresent THEN cfg.whitelistedCertificates ELSE <<>>

\* mutant: the enabled flag of an entry is not looked at
EntryMatches_ignoresEnabled(entry, clientFingerprint) ==
    entry.fingerprint = clientFingerprint

\* mutant: an entry counts only when it carries a description
EntryMatches_needsDescription(entry, clientFingerprint) ==
    /\ Truthy(entry.enabled)
    /\ entry.fingerprint = clientFingerprint
    /\ Truthy(entry.description)

\* the hex digits of a fingerprint in lower case
HexLower(fp) ==
    CASE fp = "A1" -> "a1"
      [] fp = "A2" -> "a2"
      [] fp = "B1" -> "b1"
      [] OTHER -> fp

\* mutant: the fingerprints are compared without regard to letter case
EntryMatches_ignoresCase(entry, clientFingerprint) ==
    Truthy(entry.enabled) /\ HexLower(entry.fingerprint) = HexLower(clientFingerprint)

\* the predicate handed to Array.prototype.find
EntryMatches(entry, clientFingerprint) ==
    Truthy(entry.enabled) /\ entry.fingerprint = clientFingerprint

\* mutant: only the first entry of the list is compared
FindMatch_firstOnly(list, clientFingerprint) ==
    IF Len(list) > 0 /\ Truthy(list[1].enabled)
          /\ list[1].fingerprint = clientFingerprint
    THEN 1
    ELSE 0

\* mutant: the list is searched from its end, so the last match wins
FindMatch_lastMatch(list, clientFingerprint) ==
    IF \E i \in 1..Len(list) : EntryMatches(list[i], clientFingerprint)
    THEN CHOOSE i \in 1..Len(list) :
            /\ EntryMatches(list[i], clientFingerprint)
            /\ \A j \in (i + 1)..Len(list) : ~EntryMatches(list[j], clientFingerprint)
    ELSE 0

\* Array.prototype.find: index of the first matching entry, 0 when none
FindMatch(list, clientFingerprint) ==
    IF \E i \in 1..Len(list) : EntryMatches(list[i], clientFingerprint)
    THEN CHOOSE i \in 1..Len(list) :
            /\ EntryMatches(list[i], clientFingerprint)
            /\ \A j \in 1..(i - 1) : ~EntryMatches(list[j], clientFingerprint)
    ELSE 0

NoDecision(cfg, loads) ==
    [threw |-> TRUE, config |-> cfg, loads |-> loads, allowed |-> FALSE,
     reason |-> <<>>, fingerprint |-> Undefined, match |-> 0]

\* the two return statements after find(): matchingCert is the index found
Decide(cfg, loads, hashAlgorithm, whitelistedCerts, clientFingerprint, matchingCert) ==
    IF matchingCert # 0
    THEN [threw |-> FALSE, config |-> cfg, loads |-> loads, allowed |-> TRUE,
          reason |-> <<"Certificate whitelisted: ",
                       IF Truthy(whitelistedCerts[matchingCert].description)
                       THEN whitelistedCerts[matchingCert].description
                       ELSE "No description">>,
          fingerprint |-> clientFingerprint, match |-> matchingCert]
    ELSE [threw |-> FALSE, config |-> cfg, loads |-> loads, allowed |-> FALSE,
          reason |-> <<"Certificate fingerprint not found in whitelist (using ",
                       ToUpperCase(hashAlgorithm), ": ", clientFingerprint, ")">>,
          fingerprint |-> clientFingerprint, match |-> 0]

\* the lookup once the fingerprint fp has been selected (or selecting threw)
CheckFingerprint(fp, loads) ==
    IF fp.threw
    THEN NoDecision(fp.config, loads)
    ELSE Decide(fp.config, loads, ConfiguredAlgorithm(fp.config),
                WhitelistedCerts(fp.config), fp.value,
                FindMatch(WhitelistedCerts(fp.config), fp.value))

\* the body of checkCertificateWhitelist after the lazy load ll
CheckAfterLoad(ll, loads, f, cert) ==
    IF WhitelistDisabled(ll.config)
    THEN [threw |-> FALSE, config |-> ll.config, loads |-> loads,
          allowed |-> TRUE, reason |-> <<"Whitelist disabled">>,
          fingerprint |-> Undefined, match |-> 0]
    ELSE CheckFingerprint(getClientFingerprint(ll.config, f, cert), loads)

LoadCount(ll) == IF ll.loaded THEN 1 ELSE 0

\* checkCertificateWhitelist(clientCert): the decision {allowed, reason}, the
\* whitelistConfig left behind, the number of loadWhitelist calls, the
\* fingerprint compared and the index of the matching entry.  A document
\* that is still falsy after the load reads as disabled, so the nested
\* getClientFingerprint never loads again.
checkCertificateWhitelist(cfg, f, cert) ==
    CheckAfterLoad(LazyLoad(cfg, f), LoadCount(LazyLoad(cfg, f)), f, cert)

-----------------------------------------------------------------------------
(* Peer certificates, sockets and dates *)

Times == 0..MaxTime

\* Date.prototype.toISOString of an instant
ToISOString(t) == ToString(t)

\* certificate date strings: a rendered instant, garbage, or absent
DateStrings == {ToISOString(t) : t \in Times} \cup {"garbage", Undefined}

\* `new Date(string)`: an Invalid Date (NaN) when the string does not parse
NewDate(s) ==
    IF \E t \in Times : ToISOString(t) = s
    THEN [nan |-> FALSE, ms |-> CHOOSE t \in Times : ToISOString(t) = s]
    ELSE [nan |-> TRUE, ms |-> 0]

\* `new Date()` at instant t
DateAt(t) == [nan |-> FALSE, ms |-> t]

\* a < b on Date objects: false whenever either side is NaN
DateLess(a, b) == ~a.nan /\ ~b.nan /\ a.ms < b.ms

Subjects == {Undefined, "{}", "CN=Demo Client"}

\* what req.connection.getPeerCertificate() does: it throws, returns
\* null/undefined (kind "none"), or returns an object
PeerCert(kind, subject, from, to, fp, fp256) ==
    [kind |-> kind, subject |-> subject, issuer |-> "CN=Demo CA",
     serialNumber |-> "01", valid_from |-> from, valid_to |-> to,
     fingerprint |-> fp, fingerprint256 |-> fp256]

ThrowingPeer == PeerCert("throws", Undefined, Undefined, Undefined, Undefined, Undefined)
NoPeer == PeerCert("none", Undefined, Undefined, Undefined, Undefined, Undefined)

\* certificates handed to the exported whitelist functions
Certificates ==
    {PeerCert("object", "CN=Demo Client", "0", "0", fp, fp256) :
        fp \in Sha1Digests \cup {Undefined}, fp256 \in Sha256Digests \cup {Undefined}}

\* certificates presented on a connection
PeerCertificates ==
    {ThrowingPeer, NoPeer}
    \cup {PeerCert("object", s, from, to, fp, fp256) :
            s \in Subjects, from \in DateStrings, to \in DateStrings,
            fp \in {"A1"}, fp256 \in {"B1", Undefined}}

\* req.socket: authorized and authorizationError
Socket(authorized, err) == [authorized |-> authorized, authorizationError |-> err]
Sockets ==
    {Socket(TRUE, Undefined), Socket(FALSE, Undefined),
     Socket(FALSE, "SELF_SIGNED_CERT_IN_CHAIN")}

-----------------------------------------------------------------------------
(* validateClientCertificate *)

\* mutant: only a missing certificate object counts, an empty subject passes
NoCertificate_missingOnly(peer) == peer.kind = "none"

\* `!clientCert || !clientCert.subject || Object.keys(clientCert.subject).length === 0`
NoCertificate(peer) ==
    \/ peer.kind = "none"
    \/ ~Truthy(peer.subject)
    \/ peer.subject = "{}"

\* mutant: the date validation is skipped
TemporalCheck_skipped(now, valid_from, valid_to) == "Valid"

\* mutant: the window excludes its two bounds
TemporalCheck_exclusive(now, valid_from, valid_to) ==
    IF ~NewDate(valid_from).nan /\ now <= NewDate(valid_from).ms THEN "NotYetValid"
    ELSE IF ~NewDate(valid_to).nan /\ NewDate(valid_to).ms <= now THEN "Expired"
    ELSE "Valid"

\* the date validation: which of the two comparisons fires first
TemporalCheck(now, valid_from, valid_to) ==
    IF DateLess(DateAt(now), NewDate(valid_from)) THEN "NotYetValid"
    ELSE IF DateLess(NewDate(valid_to), DateAt(now)) THEN "Expired"
    ELSE "Valid"

\* mutant: the TLS layer's verdict is logged and otherwise ignored
SocketAuthorized_ignored(sock) == TRUE

\* `req.socket.authorized`, as tested by the additional socket validation
SocketAuthorized(sock) == sock.authorized

NoIdentity ==
    [attached |-> FALSE, subject |-> Undefined, issuer |-> Undefined,
     serialNumber |-> Undefined, fingerprint |-> Undefined,
     valid_from |-> Undefined, valid_to |-> Undefined, valid |-> Undefined]

\* the allow-list was not consulted
NoCheck == [NoDecision(JsNull, 0) EXCEPT !.threw = FALSE]

\* mutant: the response is sent without `return`, so next() runs as well
Respond_thenNext(stage, status, error, details, cfg, warned, consulted, check) ==
    [stage |-> stage, status |-> status, error |-> error, details |-> details,
     nextCalled |-> TRUE, threw |-> FALSE, clientCertificate |-> NoIdentity,
     config |-> cfg, warned |-> warned, consulted |-> consulted, check |-> check]

\* a terminal of the middleware: `return res.status(status).json({error, details})`
Respond(stage, status, error, details, cfg, warned, consulted, check) ==
    [stage |-> stage, status |-> status, error |-> error, details |-> details,
     nextCalled |-> FALSE, threw |-> FALSE, clientCertificate |-> NoIdentity,
     config |-> cfg, warned |-> warned, consulted |-> consulted, check |-> check]

ValidationFailed == "Client certificate validation failed"

\* mutant: the outer catch block answers like an explicit validation failure
InternalError_asValidationFailure(cfg, warned, check) ==
    Respond("InternalError", 401, ValidationFailed,
            <<"Certificate parsing failed">>, cfg, warned, TRUE, check)

\* the outer catch block
InternalError(cfg, warned, check) ==
    Respond("InternalError", 500,
            "Internal server error during certificate validation",
            <<"Please contact administrator">>, cfg, warned, TRUE, check)

\* mutant: the identity always carries the SHA-1 digest of the certificate
Identity_sha1Always(peer, fingerprint) ==
    [attached |-> TRUE, subject |-> peer.subject, issuer |-> peer.issuer,
     serialNumber |-> peer.serialNumber, fingerprint |-> peer.fingerprint,
     valid_from |-> peer.valid_from, valid_to |-> peer.valid_to,
     valid |-> JsTrue]

\* the object assigned to req.clientCertificate
Identity(peer, fingerprint) ==
    [attached |-> TRUE, subject |-> peer.subject, issuer |-> peer.issuer,
     serialNumber |-> peer.serialNumber, fingerprint |-> fingerprint,
     valid_from |-> peer.valid_from, valid_to |-> peer.valid_to,
     valid |-> JsTrue]

\* mutant: the whitelist rejection is answered like a validation failure
Rejected_asUnauthorized(whitelistCheck, logged, warned) ==
    IF logged.threw
    THEN InternalError(logged.config, warned, whitelistCheck)
    ELSE Respond("NotWhitelisted", 401, ValidationFailed,
                 whitelistCheck.reason, logged.config, warned, TRUE,
                 whitelistCheck)

\* the whitelist rejection: logged is the getClientFingerprint call made for
\* the log entry
Rejected(whitelistCheck, logged, warned) ==
    IF logged.threw
    THEN InternalError(logged.config, warned, whitelistCheck)
    ELSE Respond("NotWhitelisted", 403, "Certificate not authorized",
                 whitelistCheck.reason, logged.config, warned, TRUE,
                 whitelistCheck)

\* mutant: the middleware answers 200 itself and calls next() as well
Admit_alsoResponds(whitelistCheck, identity, successFp, warned) ==
    [stage |-> "Admit", status |-> 200, error |-> "",
     details |-> <<"Certificate accepted">>,
     nextCalled |-> TRUE, threw |-> FALSE, clientCertificate |-> identity,
     config |-> successFp.config, warned |-> warned, consulted |-> TRUE,
     check |-> whitelistCheck]

\* after req.clientCertificate is assigned: successFp is the
\* getClientFingerprint call made for the success log entry, then next()
Admit(whitelistCheck, identity, successFp, warned) ==
    IF successFp.threw
    THEN [InternalError(successFp.config, warned, whitelistCheck) EXCEPT
            !.clientCertificate = identity]
    ELSE [stage |-> "Admit", status |-> 0, error |-> "", details |-> <<>>,
          nextCalled |-> TRUE, threw |-> FALSE, clientCertificate |-> identity,
          config |-> successFp.config, warned |-> warned, consulted |-> TRUE,
          check |-> whitelistCheck]

\* mutant: req.clientCertificate is assigned field by field, so the object
\* is already on the request when the fingerprint lookup throws
Attach_assignsFirst(whitelistCheck, attachedFp, f, peer, warned) ==
    IF attachedFp.threw
    THEN [InternalError(attachedFp.config, warned, whitelistCheck) EXCEPT
            !.clientCertificate = Identity(peer, Undefined)]
    ELSE Admit(whitelistCheck, Identity(peer, attachedFp.value),
               getClientFingerprint(attachedFp.config, f, peer), warned)

\* the assignment of req.clientCertificate: attachedFp is the
\* getClientFingerprint call inside the object literal
Attach(whitelistCheck, attachedFp, f, peer, warned) ==
    IF attachedFp.threw
    THEN InternalError(attachedFp.config, warned, whitelistCheck)
    ELSE Admit(whitelistCheck, Identity(peer, attachedFp.value),
               getClientFingerprint(attachedFp.config, f, peer), warned)

\* the middleware from the whitelist check on
AfterWhitelistCheck(whitelistCheck, f, peer, warned) ==
    IF whitelistCheck.threw
    THEN InternalError(whitelistCheck.config, warned, whitelistCheck)
    ELSE IF ~whitelistCheck.allowed
    THEN Rejected(whitelistCheck,
                  getClientFingerprint(whitelistCheck.config, f, peer), warned)
    ELSE Attach(whitelistCheck,
                getClientFingerprint(whitelistCheck.config, f, peer), f, peer,
                warned)

\* mutant: a disabled allow-list switches the date validation and the
\* socket validation off as well
AfterPresenceCheck_disabledSkipsAll(cfg, f, peer, sock, temporal, warned) ==
    IF WhitelistDisabled(LazyLoad(cfg, f).config)
    THEN AfterWhitelistCheck(checkCertificateWhitelist(cfg, f, peer), f, peer,
                             warned)
    ELSE IF temporal = "NotYetValid"
    THEN Respond("NotYetValid", 401, ValidationFailed,
                 <<"Certificate not yet valid. Valid from: ", peer.valid_from>>,
                 cfg, warned, FALSE, NoCheck)
    ELSE IF temporal = "Expired"
    THEN Respond("Expired", 401, ValidationFailed,
                 <<"Certificate expired. Valid until: ", peer.valid_to>>,
                 cfg, warned, FALSE, NoCheck)
    ELSE IF ~sock.authorized
    THEN Respond("NotAuthorized", 401, ValidationFailed,
                 <<"Certificate not trusted">>, cfg, warned, FALSE, NoCheck)
    ELSE AfterWhitelistCheck(checkCertificateWhitelist(cfg, f, peer), f, peer,
                             warned)

\* the middleware from the date validation on
AfterPresenceCheck(cfg, f, peer, sock, temporal, warned) ==
    IF temporal = "NotYetValid"
    THEN Respond("NotYetValid", 401, ValidationFailed,
                 <<"Certificate not yet valid. Valid from: ", peer.valid_from>>,
                 cfg, warned, FALSE, NoCheck)
    ELSE IF temporal = "Expired"
    THEN Respond("Expired", 401, ValidationFailed,
                 <<"Certificate expired. Valid until: ", peer.valid_to>>,
                 cfg, warned, FALSE, NoCheck)
    ELSE IF ~SocketAuthorized(sock)
    THEN Respond("NotAuthorized", 401, ValidationFailed,
                 <<IF Truthy(sock.authorizationError)
                   THEN sock.authorizationError
                   ELSE "Certificate not trusted">>,
                 cfg, warned, FALSE, NoCheck)
    ELSE AfterWhitelistCheck(checkCertificateWhitelist(cfg, f, peer), f, peer,
                             warned)

\* mutant: getPeerCertificate is called without a try/catch of its own, so
\* its fault lands in the outer catch block
validateClientCertificate_noInnerCatch(cfg, f, peer, sock, now) ==
    IF peer.kind = "throws"
    THEN InternalError(cfg, FALSE, NoCheck)
    ELSE IF NoCertificate(peer)
    THEN Respond("NoCertificate", 401, ValidationFailed,
                 <<"No client certificate provided">>, cfg, FALSE, FALSE, NoCheck)
    ELSE AfterPresenceCheck(cfg, f, peer, sock,
                            TemporalCheck(now, peer.valid_from, peer.valid_to),
                            ~sock.authorized)

\* validateClientCertificate(req, res, next): cfg is whitelistConfig and f
\* the backing file when the middleware runs, peer what getPeerCertificate
\* does, sock the socket and now the clock.  The result is the response
\* sent (status 0: none), whether next() was called, req.clientCertificate
\* and the whitelistConfig left behind.
validateClientCertificate(cfg, f, peer, sock, now) ==
    IF peer.kind = "throws"
    THEN Respond("ParsingFailed", 401, ValidationFailed,
                 <<"Certificate parsing failed">>, cfg, FALSE, FALSE, NoCheck)
    ELSE IF NoCertificate(peer)
    THEN Respond("NoCertificate", 401, ValidationFailed,
                 <<"No client certificate provided">>, cfg, FALSE, FALSE, NoCheck)
    ELSE AfterPresenceCheck(cfg, f, peer, sock,
                            TemporalCheck(now, peer.valid_from, peer.valid_to),
                            ~sock.authorized)

-----------------------------------------------------------------------------
(* Certificate setup, configuration and start-up *)

\* CA_KEY, CA_CERT, SERVER_KEY, SERVER_CERT, CLIENT_KEY, CLIENT_CERT: the
\* files main() of setup-certificates.js leaves behind, in the order written
GeneratedFiles ==
    <<"ca-key.pem", "ca-cert.pem", "server-key.pem", "server-cert.pem",
      "client-key.pem", "client-cert.pem">>

\* the first n of the generated files
Generated(n) == {GeneratedFiles[i] : i \in 1..n}

\* config.ssl.serverCert, serverKey and caCert, joined with certsPath
getCertificatePaths ==
    [serverCert |-> "server.crt", serverKey |-> "server.key", caCert |-> "ca.crt"]

\* the `file` fields of requiredCerts in performPreflightChecks
requiredCerts == {"ca.crt", "server.crt", "server.key"}

\* the files serverOptions reads with readFileSync
serverOptions == {"server-key.pem", "server-cert.pem", "ca-cert.pem"}

\* process.env and process.version as the scripts read them
Environ(port, nodeEnv, logLevel, major) ==
    [PORT |-> port, NODE_ENV |-> nodeEnv, LOG_LEVEL |-> logLevel, major |-> major]

Environs ==
    {Environ(p, e, l, m) : p \in {Undefined, "abc"},
                           e \in {Undefined, "production", "test"},
                           l \in {Undefined, "error"},
                           m \in {12, 18}}

\* the environments a start of the server is tried under
StartEnvirons == {e \in Environs : e.LOG_LEVEL = Undefined}

EnvironmentNames == {"production", "development", "test", "staging"}

\* the fields of `config` that getEnvironmentConfig and validateConfig touch:
\* server.port, server.environment, logging.level, logging.console.enabled
\* and ssl.rejectUnauthorized
ConfigFromEnv(e) ==
    [port |-> IF Truthy(e.PORT) THEN e.PORT ELSE "8443",
     environment |-> IF Truthy(e.NODE_ENV) THEN e.NODE_ENV ELSE "development",
     level |-> IF Truthy(e.LOG_LEVEL) THEN e.LOG_LEVEL ELSE "info",
     consoleEnabled |-> TRUE,
     rejectUnauthorized |-> FALSE]

\* server/config.js has not been loaded
NoConfig ==
    [port |-> Undefined, environment |-> Undefined, level |-> Undefined,
     consoleEnabled |-> FALSE, rejectUnauthorized |-> FALSE]

\* `!config.server.port || isNaN(config.server.port)`: the number 0 is
\* falsy, a string that is not a number is NaN
InvalidPort(port) == port \in {Undefined, "0", "abc"}

\* getEnvironmentConfig(env): `{ ...config }` copies the top level only, so
\* envConfig.logging, envConfig.ssl and envConfig.server are the objects of
\* `config` itself and the assignments of the switch land in both; the value
\* is the state of the shared objects, which is also the value returned
getEnvironmentConfig(cfg, env) ==
    IF env = "production"
    THEN [cfg EXCEPT !.level = "warn", !.consoleEnabled = FALSE,
                     !.rejectUnauthorized = TRUE]
    ELSE IF env = "development"
    THEN [cfg EXCEPT !.level = "debug", !.consoleEnabled = TRUE]
    ELSE IF env = "test"
    THEN [cfg EXCEPT !.port = "0", !.level = "error", !.consoleEnabled = FALSE]
    ELSE cfg

\* validateConfig(): the errors it collects, by the thing found wrong
validateConfig(cfg, dir) ==
    (IF InvalidPort(cfg.port) THEN {"PORT"} ELSE {})
    \cup {name \in DOMAIN getCertificatePaths : getCertificatePaths[name] \notin dir}

\* a way out of performPreflightChecks: process.exit(1) or a normal return
Preflight(exited, cause, errors, cfg) ==
    [exited |-> exited, cause |-> cause, errors |-> errors, config |-> cfg]

\* performPreflightChecks(): the Node.js version, validateConfig(), then
\* the required certificates under getEnvironmentConfig().ssl.certsPath
performPreflightChecks(cfg, dir, major) ==
    IF major < 14
    THEN Preflight(TRUE, "NodeVersion", {}, cfg)
    ELSE IF validateConfig(cfg, dir) # {}
    THEN Preflight(TRUE, "ConfigValidation", validateConfig(cfg, dir), cfg)
    ELSE IF ~(requiredCerts \subseteq dir)
    THEN Preflight(TRUE, "MissingCertificates", requiredCerts \ dir,
                   getEnvironmentConfig(cfg, cfg.environment))
    ELSE Preflight(FALSE, "", {}, getEnvironmentConfig(cfg, cfg.environment))

Arguments == {"--help", "--version", "--check", "none"}
Scripts == {"scripts/start-server.js", "server/index.js"}

\* no node process; env, args and script are those of the last one
NoProcess ==
    [pc |-> "shell", script |-> "server/index.js", args |-> "none",
     env |-> Environ(Undefined, Undefined, Undefined, 18),
     setup |-> "notRun", listening |-> FALSE, preflight |-> "notRun",
     exitCode |-> 0, cause |-> "", errors |-> {}]

\* `node server/index.js` after a successful setup: the process serves
ServerUp ==
    [NoProcess EXCEPT !.pc = "serving", !.setup = "ok", !.listening = TRUE]

\* no call of getEnvironmentConfig yet
NoEnvCall == [called |-> FALSE, env |-> Undefined, returned |-> NoConfig]

\* the deployment the request pipeline runs in: certificates generated,
\* the server started directly and listening
Deployed ==
    /\ certs = Generated(Len(GeneratedFiles))
    /\ setup = "ok"
    /\ launch = ServerUp
    /\ config = NoConfig
    /\ envConfig = NoEnvCall

\* the process ends: the listening socket goes with it
Exit(l, code, cause, errors, preflight) ==
    [l EXCEPT !.pc = "exited", !.listening = FALSE, !.exitCode = code,
              !.cause = cause, !.errors = errors, !.preflight = preflight]

\* main() of start-server.js, from the position after the module requires:
\* pf is performPreflightChecks() on the config the banner left behind
MainAfterPreflight(l, pf) ==
    IF pf.exited
    THEN Exit(l, 1, pf.cause, pf.errors, "failed")
    ELSE IF l.args = "--check"
    THEN [l EXCEPT !.pc = "serving", !.preflight = "passed"]
    \* `startServer()`: server/index.js exports nothing, so startServer
    \* is undefined and the call is a TypeError, caught by main
    ELSE Exit(l, 1, "TypeError", {}, "passed")

-----------------------------------------------------------------------------
(* The state machine *)

\* the middleware has not run
NoOutcome ==
    [stage |-> "None", status |-> 0, error |-> "", details |-> <<>>,
     nextCalled |-> FALSE, threw |-> FALSE, clientCertificate |-> NoIdentity,
     config |-> JsNull, warned |-> FALSE, consulted |-> FALSE, check |-> NoCheck]

\* no request in flight; held is the whitelistConfig the middleware found
IdleReq ==
    [pc |-> "idle", peer |-> NoPeer, sock |-> Socket(FALSE, Undefined), now |-> 0,
     held |-> JsNull, out |-> NoOutcome, handler |-> "none", status |-> 0]

\* no exported function called yet; for a load, held tells whether a
\* document was held before, and for a reload after a rewrite of the file
\* replaced is the hashAlgorithm of that document
NoCall ==
    [op |-> "none", cert |-> NoPeer, threw |-> FALSE, unloadable |-> FALSE,
     held |-> FALSE, replaced |-> Undefined, loads |-> 0, allowed |-> FALSE,
     reason |-> <<>>, fingerprint |-> Undefined, match |-> 0]

\* the server starts with whatever whitelist file is on disk
Init ==
    /\ file \in FilesOver(ServerDocs)
    /\ whitelistConfig = JsNull
    /\ req = IdleReq
    /\ call = NoCall
    /\ Deployed

\* The middleware chain after the body parser runs in one tick of the event
\* loop, so nothing else runs between validateClientCertificate and the
\* route handler; a finished request is dropped before the next event.
BetweenEvents == req.pc \in {"idle", "json", "validate"}

\* an operator edits, replaces or deletes config/whitelist.json
WriteFile ==
    /\ BetweenEvents
    /\ \E f \in FilesOver(ServerDocs) : f # file /\ file' = f
    /\ UNCHANGED <<whitelistConfig, req, call>>
    /\ UNCHANGED host

\* an explicit call of the exported loadWhitelist()
LoadWhitelist ==
    LET r == loadWhitelist(whitelistConfig, file)
    IN  /\ BetweenEvents
        /\ whitelistConfig' = r.config
        /\ call' = [NoCall EXCEPT !.op = "loadWhitelist", !.threw = r.threw,
                                  !.unloadable = Unloadable(file),
                                  !.held = (whitelistConfig \notin {JsNull, DefaultConfig}),
                                  !.loads = 1]
        /\ UNCHANGED <<file, req>>
        /\ UNCHANGED host

\* a direct call of the exported checkCertificateWhitelist(clientCert)
CheckCertificateWhitelist ==
    \E cert \in Certificates :
        LET r == checkCertificateWhitelist(whitelistConfig, file, cert)
        IN  /\ whitelistConfig' = r.config
            /\ call' = [NoCall EXCEPT !.op = "checkCertificateWhitelist",
                                      !.cert = cert, !.threw = r.threw,
                                      !.loads = r.loads, !.allowed = r.allowed,
                                      !.reason = r.reason,
                                      !.fingerprint = r.fingerprint,
                                      !.match = r.match]
            /\ UNCHANGED <<file, req>>
            /\ UNCHANGED host

\* a direct call of the exported getClientFingerprint(clientCert)
GetClientFingerprint ==
    \E cert \in Certificates :
        LET r == getClientFingerprint(whitelistConfig, file, cert)
        IN  /\ whitelistConfig' = r.config
            /\ call' = [NoCall EXCEPT !.op = "getClientFingerprint",
                                      !.cert = cert, !.threw = r.threw,
                                      !.loads = IF r.loaded THEN 1 ELSE 0,
                                      !.fingerprint = r.value]
            /\ UNCHANGED <<file, req>>
            /\ UNCHANGED host

\* the HTTPS server hands a new request to the Express app
RequestArrives ==
    /\ req.pc = "idle"
    /\ req' = [IdleReq EXCEPT !.pc = "json"]
    /\ UNCHANGED <<file, whitelistConfig, call>>
    /\ UNCHANGED host

\* the response has been sent and the request object is dropped
RequestCompletes ==
    /\ req.pc = "responded"
    /\ req' = IdleReq
    /\ UNCHANGED <<file, whitelistConfig, call>>
    /\ UNCHANGED host

\* app.use(express.json()): a body that does not parse goes to the error
\* handling middleware, which answers 500
ExpressJson ==
    /\ req.pc = "json"
    /\ \/ req' = [req EXCEPT !.pc = "validate"]
       \/ req' = [req EXCEPT !.pc = "responded", !.handler = "errorHandler",
                             !.status = 500]
    /\ UNCHANGED <<file, whitelistConfig, call>>
    /\ UNCHANGED host

\* app.use(validateClientCertificate)
ValidateClientCertificate ==
    /\ req.pc = "validate"
    /\ \E peer \in PeerCertificates, sock \in Sockets, now \in Times :
          LET out == validateClientCertificate(whitelistConfig, file, peer, sock, now)
          IN  /\ req' = [req EXCEPT !.pc = IF out.nextCalled THEN "log" ELSE "responded",
                                    !.peer = peer, !.sock = sock, !.now = now,
                                    !.held = whitelistConfig,
                                    !.out = out, !.status = out.status]
              /\ whitelistConfig' = out.config
    /\ UNCHANGED <<file, call>>
    /\ UNCHANGED host

\* app.use(logCertificateDetails): logs and calls next()
LogCertificateDetails ==
    /\ req.pc = "log"
    /\ req' = [req EXCEPT !.pc = "route"]
    /\ UNCHANGED <<file, whitelistConfig, call>>
    /\ UNCHANGED host

\* the router: GET /api/hello, GET /health, or the 404 handler.  The hello
\* handler reads req.clientCertificate.subject, a TypeError without an
\* identity, which the error handling middleware answers with 500.
RouteHandler ==
    /\ req.pc = "route"
    /\ \/ IF req.out.clientCertificate.attached
          THEN req' = [req EXCEPT !.pc = "responded", !.handler = "/api/hello",
                                  !.status = 200]
          ELSE req' = [req EXCEPT !.pc = "responded", !.handler = "errorHandler",
                                  !.status = 500]
       \/ req' = [req EXCEPT !.pc = "responded", !.handler = "/health",
                             !.status = 200]
       \/ req' = [req EXCEPT !.pc = "responded", !.handler = "notFound",
                             !.status = 404]
    /\ UNCHANGED <<file, whitelistConfig, call>>
    /\ UNCHANGED host

\* the server together with explicit reloads of the whitelist
Next ==
    \/ WriteFile
    \/ LoadWhitelist
    \/ RequestArrives
    \/ ExpressJson
    \/ ValidateClientCertificate
    \/ LogCertificateDetails
    \/ RouteHandler
    \/ RequestCompletes

Spec == Init /\ [][Next]_vars

\* the running server alone: nothing calls loadWhitelist() explicitly
NextServer ==
    \/ WriteFile
    \/ RequestArrives
    \/ ExpressJson
    \/ ValidateClientCertificate
    \/ LogCertificateDetails
    \/ RouteHandler
    \/ RequestCompletes

SpecServer == Init /\ [][NextServer]_vars

\* the exported whitelist functions called directly, over every document
InitApi ==
    /\ file \in FilesOver(AllDocs)
    /\ whitelistConfig = JsNull
    /\ req = IdleReq
    /\ call = NoCall
    /\ Deployed

NextApi ==
    \/ LoadWhitelist
    \/ CheckCertificateWhitelist
    \/ GetClientFingerprint

SpecApi == InitApi /\ [][NextApi]_vars

\* the documents the hash algorithm tests write: enabled, configured for
\* sha1 or sha256, with entries holding a SHA-1 or a SHA-256 digest
SwitchEntries ==
    {Entry("A1", "SHA1 certificate", JsTrue),
     Entry("B1", "SHA256 certificate", JsTrue)}

SwitchDocs ==
    {Doc(JsTrue, alg, TRUE, l) :
        alg \in {"sha1", "sha256"},
        l \in UNION {[1..n -> SwitchEntries] : n \in 1..MaxEntries}}

InitReload ==
    /\ file \in FilesOver(SwitchDocs)
    /\ whitelistConfig = JsNull
    /\ req = IdleReq
    /\ call = NoCall
    /\ Deployed

\* fs.writeFileSync(originalWhitelistPath, JSON.stringify(config, null, 2));
\* loadWhitelist();
ReloadWhitelist ==
    \E f \in FilesOver(SwitchDocs) :
        /\ f # file
        /\ file' = f
        /\ whitelistConfig' = loadWhitelist(whitelistConfig, f).config
        /\ call' = [NoCall EXCEPT !.op = "reload",
                                  !.threw = loadWhitelist(whitelistConfig, f).threw,
                                  !.unloadable = Unloadable(f),
                                  !.held = (whitelistConfig \notin {JsNull, DefaultConfig}),
                                  !.replaced = whitelistConfig.hashAlgorithm,
                                  !.loads = 1]
        /\ UNCHANGED req
        /\ UNCHANGED host

\* the exported whitelist functions with the file rewritten and reloaded
\* between calls
NextReload ==
    \/ ReloadWhitelist
    \/ LoadWhitelist
    \/ CheckCertificateWhitelist
    \/ GetClientFingerprint

SpecReload == InitReload /\ [][NextReload]_vars

\* the exported whitelist functions called directly while an operator
\* edits the file of the running process
NextLazy ==
    \/ WriteFile
    \/ LoadWhitelist
    \/ CheckCertificateWhitelist
    \/ GetClientFingerprint

SpecLazy == Init /\ [][NextLazy]_vars

\* main() of setup-certificates.js: the six files are written in order; a
\* failing openssl command or a failing verification ends the run with
\* exit code 1 and leaves the files written so far
SetupMain ==
    /\ \E n \in 0..Len(GeneratedFiles), ok \in BOOLEAN :
          /\ ok => n = Len(GeneratedFiles)
          /\ certs' = certs \cup Generated(n)
          /\ setup' = IF ok THEN "ok" ELSE "failed"
    /\ UNCHANGED <<launch, config, envConfig>>
    /\ UNCHANGED gateway

\* a node process starts and loads server/index.js, either as the main
\* module or through `require('../server/index')` at the top of
\* start-server.js: serverOptions is read with readFileSync, a missing file
\* is an exception nothing catches; otherwise the module creates the HTTPS
\* server and calls server.listen(PORT)
RequireServerIndex ==
    /\ launch.pc \in {"shell", "exited"}
    /\ \E sc \in Scripts, a \in Arguments, e \in StartEnvirons :
          /\ sc = "server/index.js" => a = "none"
          /\ launch' =
                IF ~(serverOptions \subseteq certs)
                THEN Exit([NoProcess EXCEPT !.script = sc, !.args = a, !.env = e,
                                            !.setup = setup],
                          1, "ENOENT", serverOptions \ certs, "notRun")
                ELSE [NoProcess EXCEPT !.script = sc, !.args = a, !.env = e,
                                       !.setup = setup, !.listening = TRUE,
                                       !.pc = IF sc = "server/index.js"
                                              THEN "serving" ELSE "config"]
    /\ config' = NoConfig
    /\ envConfig' = NoEnvCall
    /\ UNCHANGED <<certs, setup>>
    /\ UNCHANGED gateway

\* `require('../server/config')`: the config object is built from process.env
RequireConfig ==
    /\ launch.pc = "config"
    /\ launch' = [launch EXCEPT !.pc = "main"]
    /\ config' = ConfigFromEnv(launch.env)
    /\ UNCHANGED <<certs, setup, envConfig>>
    /\ UNCHANGED gateway

\* main() of start-server.js: --help and --version return at once, --check
\* runs the pre-flight checks and returns, a start without option shows the
\* banner (a call of getEnvironmentConfig), runs the pre-flight checks and
\* calls startServer(); after a return the listening server keeps the
\* process alive
Main ==
    /\ launch.pc = "main"
    /\ IF launch.args \in {"--help", "--version"}
       THEN /\ launch' = [launch EXCEPT !.pc = "serving"]
            /\ config' = config
       ELSE IF launch.args = "--check"
       THEN /\ launch' = MainAfterPreflight(launch,
                            performPreflightChecks(config, certs, launch.env.major))
            /\ config' = performPreflightChecks(config, certs,
                                                launch.env.major).config
       ELSE /\ launch' = MainAfterPreflight(launch,
                            performPreflightChecks(
                                getEnvironmentConfig(config, config.environment),
                                certs, launch.env.major))
            /\ config' = performPreflightChecks(
                                getEnvironmentConfig(config, config.environment),
                                certs, launch.env.major).config
    /\ UNCHANGED <<certs, setup, envConfig>>
    /\ UNCHANGED gateway

\* SIGTERM or SIGINT: server.close(), then process.exit(0)
Terminate ==
    /\ launch.pc = "serving"
    /\ launch' = Exit(launch, 0, "signal", {}, launch.preflight)
    /\ UNCHANGED <<certs, setup, config, envConfig>>
    /\ UNCHANGED gateway

\* a certs directory that holds nothing, or files under the names of
\* config.ssl that someone put there
InitStartup ==
    /\ certs \in SUBSET requiredCerts
    /\ setup = "notRun"
    /\ launch = NoProcess
    /\ config = NoConfig
    /\ envConfig = NoEnvCall
    /\ file = MissingFile
    /\ whitelistConfig = JsNull
    /\ req = IdleReq
    /\ call = NoCall

\* setting up the certificates and starting and stopping the server
NextStartup ==
    \/ SetupMain
    \/ RequireServerIndex
    \/ RequireConfig
    \/ Main
    \/ Terminate

SpecStartup == InitStartup /\ [][NextStartup]_vars

\* a direct call of the exported getEnvironmentConfig(env); without an
\* argument env is config.server.environment
GetEnvironmentConfig ==
    /\ \E env \in EnvironmentNames \cup {Undefined} :
          LET e == IF env = Undefined THEN config.environment ELSE env
          IN  /\ config' = getEnvironmentConfig(config, e)
              /\ envConfig' = [called |-> TRUE, env |-> e,
                               returned |-> getEnvironmentConfig(config, e)]
    /\ UNCHANGED <<certs, setup, launch>>
    /\ UNCHANGED gateway

\* a process that has loaded server/config.js under some environment
InitConfig ==
    /\ certs = Generated(Len(GeneratedFiles))
    /\ setup = "ok"
    /\ \E e \in Environs :
          /\ launch = [ServerUp EXCEPT !.env = e]
          /\ config = ConfigFromEnv(e)
    /\ envConfig = NoEnvCall
    /\ file = MissingFile
    /\ whitelistConfig = JsNull
    /\ req = IdleReq
    /\ call = NoCall

NextConfig == GetEnvironmentConfig

SpecConfig == InitConfig /\ [][NextConfig]_vars

-----------------------------------------------------------------------------
(* Properties *)

\* validateClientCertificate has run for the request in flight; until the
\* request completes, file and whitelistConfig are those it left behind
Validated == req.out.stage # "None"

RouteHandlers == {"/api/hello", "/health", "notFound"}

\* the certificate is present with a non-empty subject
HasSubject(peer) == peer.kind = "object" /\ peer.subject \notin {Undefined, "{}"}

\* now lies inside the inclusive validity window of the certificate
InsideWindow(peer, now) ==
    \E nb \in Times, na \in Times :
        /\ peer.valid_from = ToISOString(nb)
        /\ peer.valid_to = ToISOString(na)
        /\ nb <= now /\ now <= na

\* C1: a downstream handler (logCertificateDetails, /api/hello, /health, the
\* 404 handler) runs for a request only after validateClientCertificate has
\* attached req.clientCertificate with valid = true and called next(); a
\* request without an attached identity never reaches one.
C1_HandlerOnlyWithIdentity ==
    (req.pc \in {"log", "route"} \/ req.handler \in RouteHandlers) =>
        /\ req.out.stage = "Admit"
        /\ req.out.nextCalled
        /\ req.out.status = 0
        /\ req.out.clientCertificate.attached
        /\ req.out.clientCertificate.valid = JsTrue

C1_Witness ==
    /\ req.pc = "responded"
    /\ req.handler = "/api/hello"
    /\ req.out.clientCertificate.attached

\* C2 as stated: for a certificate with a non-empty subject inside its
\* validity window, the request is admitted exactly when
\* checkCertificateWhitelist allows the certificate, whatever
\* socket.authorized is (internal faults aside).
C2_AllowListAloneDecides ==
    (Validated /\ HasSubject(req.peer) /\ InsideWindow(req.peer, req.now)) =>
        LET d == checkCertificateWhitelist(whitelistConfig, file, req.peer)
            fp == getClientFingerprint(whitelistConfig, file, req.peer)
        IN  /\ (~d.threw /\ d.allowed /\ ~fp.threw) => req.out.nextCalled
            /\ (~d.threw /\ ~d.allowed) => ~req.out.nextCalled

\* C2 amended: for a certificate with a non-empty subject inside its
\* validity window, socket.authorized = false is logged and the request is
\* denied with 401 without consulting the allow-list; with
\* socket.authorized = true the allow-list check decides: 403 when it
\* returns allowed = false, admission when it returns allowed = true and
\* selecting the fingerprint raises no fault.
C2_UnauthorizedSocketDenied ==
    (Validated /\ HasSubject(req.peer) /\ InsideWindow(req.peer, req.now)) =>
        LET d == checkCertificateWhitelist(whitelistConfig, file, req.peer)
            fp == getClientFingerprint(whitelistConfig, file, req.peer)
        IN  IF ~req.sock.authorized
            THEN /\ req.out.warned
                 /\ req.out.status = 401
                 /\ req.out.details =
                        <<IF req.sock.authorizationError = Undefined
                          THEN "Certificate not trusted"
                          ELSE req.sock.authorizationError>>
                 /\ ~req.out.nextCalled
                 /\ ~req.out.consulted
            ELSE /\ req.out.consulted
                 /\ (~d.threw /\ ~d.allowed) =>
                        (req.out.status = 403 /\ ~req.out.nextCalled)
                 /\ (~d.threw /\ d.allowed /\ ~fp.threw) =>
                        (req.out.status = 0 /\ req.out.nextCalled)

C2_Witness ==
    /\ Validated /\ HasSubject(req.peer) /\ InsideWindow(req.peer, req.now)
    /\ ~req.sock.authorized
    /\ whitelistConfig.whitelistEnabled = JsTrue
    /\ checkCertificateWhitelist(whitelistConfig, file, req.peer).allowed
    /\ req.out.status = 401

\* C3: the stages are evaluated in the order NoCertificate, TemporalCheck,
\* ChainCheck, AllowListCheck, Admit and the earliest denial wins: a missing
\* or empty-subject certificate is answered as such whatever else holds, a
\* not-yet-valid or expired certificate is answered as such whatever the
\* socket and the allow-list say, and the allow-list is not consulted for a
\* request denied at an earlier stage.
C3_EarliestStageWins ==
    Validated =>
        /\ (req.peer.kind # "throws" /\ ~HasSubject(req.peer)) =>
                req.out.stage = "NoCertificate"
        /\ \A nb \in Times :
              (HasSubject(req.peer) /\ req.peer.valid_from = ToISOString(nb)
                 /\ req.now < nb) =>
                    /\ req.out.stage = "NotYetValid"
                    /\ req.out.details =
                          <<"Certificate not yet valid. Valid from: ", req.peer.valid_from>>
        /\ \A na \in Times :
              (HasSubject(req.peer) /\ req.peer.valid_to = ToISOString(na)
                 /\ req.now > na
                 /\ ~(\E nb \in Times : req.peer.valid_from = ToISOString(nb)
                                         /\ req.now < nb)) =>
                    /\ req.out.stage = "Expired"
                    /\ req.out.details =
                          <<"Certificate expired. Valid until: ", req.peer.valid_to>>
        /\ req.out.stage \in {"ParsingFailed", "NoCertificate", "NotYetValid",
                               "Expired", "NotAuthorized"} =>
                /\ ~req.out.consulted
                /\ req.out.check = NoCheck
                /\ ~req.out.nextCalled

\* an expired certificate on an unauthorized socket that the allow-list
\* would reject as well
C3_Witness ==
    /\ Validated
    /\ req.out.stage = "Expired"
    /\ ~req.sock.authorized
    /\ ~checkCertificateWhitelist(whitelistConfig, file, req.peer).allowed

\* C4: a request whose peer certificate is absent or has an empty subject
\* is answered 401 'No client certificate provided' and next() is not
\* called, for every whitelist document, socket and value of the other
\* certificate fields.
C4_NoCertificateDenied ==
    (Validated /\ req.peer.kind # "throws"
        /\ (req.peer.kind = "none" \/ req.peer.subject \in {Undefined, "{}"})) =>
        /\ req.out.status = 401
        /\ req.out.error = "Client certificate validation failed"
        /\ req.out.details = <<"No client certificate provided">>
        /\ ~req.out.nextCalled
        /\ ~req.out.clientCertificate.attached

\* an empty subject on an authorized socket, inside the validity window,
\* with the whitelist disabled by a missing file
C4_Witness ==
    /\ Validated
    /\ req.peer.kind = "object" /\ req.peer.subject = "{}"
    /\ req.sock.authorized
    /\ InsideWindow(req.peer, req.now)
    /\ file = MissingFile
    /\ req.out.status = 401

\* C5: for parseable dates the temporal check answers NotYetValid exactly
\* when now < not-before, Expired exactly when now > not-after and not
\* now < not-before, and lets the request pass otherwise; the window is
\* inclusive at both bounds.
C5_TemporalClassification ==
    \A nb \in Times, na \in Times :
        (Validated /\ HasSubject(req.peer)
            /\ req.peer.valid_from = ToISOString(nb)
            /\ req.peer.valid_to = ToISOString(na)) =>
            /\ (req.out.stage = "NotYetValid") <=> (req.now < nb)
            /\ (req.out.stage = "Expired") <=> (req.now > na /\ ~(req.now < nb))
            /\ (nb <= req.now /\ req.now <= na) =>
                    req.out.stage \in {"NotAuthorized", "NotWhitelisted",
                                       "InternalError", "Admit"}

\* now equal to both bounds of the window, and the request is admitted
C5_Witness ==
    /\ Validated
    /\ req.peer.valid_from = ToISOString(req.now)
    /\ req.peer.valid_to = ToISOString(req.now)
    /\ req.out.stage = "Admit"

\* the text `matchingCert.description || 'No description'`
DescriptionText(entry) ==
    IF entry.description \in {Undefined, ""} THEN "No description"
    ELSE entry.description

\* the entries of the held document that are enabled and carry fingerprint fp
EnabledMatches(cfg, fp) ==
    {i \in 1..Len(cfg.whitelistedCertificates) :
        /\ cfg.whitelistedCertificates[i].enabled = JsTrue
        /\ cfg.whitelistedCertificates[i].fingerprint = fp}

\* C6: when the held document has whitelistEnabled = true and the
\* certificate's selected digest equals the fingerprint of at least one
\* entry with enabled = true, checkCertificateWhitelist returns
\* allowed = true with the reason 'Certificate whitelisted: ' followed by
\* the description of such an entry.
C6_EnabledEntryAllows ==
    LET sel == getClientFingerprint(whitelistConfig, file, call.cert)
    IN  (call.op = "checkCertificateWhitelist"
            /\ whitelistConfig.whitelistEnabled = JsTrue
            /\ ~sel.threw
            /\ EnabledMatches(whitelistConfig, sel.value) # {}) =>
            /\ ~call.threw
            /\ call.allowed
            /\ \E i \in EnabledMatches(whitelistConfig, sel.value) :
                  call.reason = <<"Certificate whitelisted: ",
                                  DescriptionText(whitelistConfig.whitelistedCertificates[i])>>

\* the only enabled entry with the selected digest is the second of the list
C6_Witness ==
    /\ call.op = "checkCertificateWhitelist"
    /\ whitelistConfig.whitelistEnabled = JsTrue
    /\ whitelistConfig.hashAlgorithm = "sha256"
    /\ call.cert.fingerprint256 = "B1"
    /\ EnabledMatches(whitelistConfig, "B1") = {2}
    /\ call.allowed
    /\ call.reason = <<"Certificate whitelisted: ", "Demo client certificate">>

\* C7: when the held document has whitelistEnabled = false,
\* checkCertificateWhitelist returns allowed = true with the reason
\* 'Whitelist disabled' for every certificate and every entries list.
C7_DisabledAllowsAll ==
    (call.op = "checkCertificateWhitelist"
        /\ whitelistConfig.kind = "object"
        /\ whitelistConfig.whitelistEnabled = JsFalse) =>
        /\ ~call.threw
        /\ call.allowed
        /\ call.reason = <<"Whitelist disabled">>

\* a disabled document whose list holds only entries that are themselves
\* disabled or carry another fingerprint
C7_Witness ==
    /\ call.op = "checkCertificateWhitelist"
    /\ whitelistConfig.kind = "object"
    /\ whitelistConfig.whitelistEnabled = JsFalse
    /\ Len(whitelistConfig.whitelistedCertificates) = 2
    /\ whitelistConfig.whitelistedCertificates[1].enabled = JsFalse
    /\ EnabledMatches(whitelistConfig, call.cert.fingerprint) = {}
    /\ EnabledMatches(whitelistConfig, call.cert.fingerprint256) = {}
    /\ call.allowed

\* C8: when the held document has whitelistEnabled = true and no entry with
\* enabled = true carries the certificate's selected digest, the allow-list
\* check returns allowed = false with the 'not found' reason naming the
\* configured hash algorithm in upper case and the compared fingerprint, and
\* the middleware answers 403 with that reason without calling next().
C8_NoEnabledMatchDenied ==
    LET sel == getClientFingerprint(whitelistConfig, file, req.peer)
        notFound ==
            <<"Certificate fingerprint not found in whitelist (using ",
              ToUpperCase(IF whitelistConfig.hashAlgorithm \in {Undefined, ""}
                          THEN "sha1" ELSE whitelistConfig.hashAlgorithm),
              ": ", sel.value, ")">>
    IN  (Validated /\ req.out.consulted
            /\ whitelistConfig.whitelistEnabled = JsTrue
            /\ ~sel.threw
            /\ EnabledMatches(whitelistConfig, sel.value) = {}) =>
            /\ ~req.out.check.threw
            /\ ~req.out.check.allowed
            /\ req.out.check.reason = notFound
            /\ req.out.status = 403
            /\ req.out.error = "Certificate not authorized"
            /\ req.out.details = notFound
            /\ ~req.out.nextCalled

\* the only entry carrying the compared fingerprint is disabled
C8_Witness ==
    /\ Validated
    /\ req.out.stage = "NotWhitelisted"
    /\ \E i \in 1..Len(whitelistConfig.whitelistedCertificates) :
          /\ whitelistConfig.whitelistedCertificates[i].fingerprint =
                req.out.check.fingerprint
          /\ whitelistConfig.whitelistedCertificates[i].enabled = JsFalse

\* C9: loadWhitelist never throws; when the backing document is missing,
\* unreadable or does not parse to a document (malformed text, or JSON null),
\* the document held after the call is exactly the disabled default,
\* whatever was held before, and checkCertificateWhitelist then returns
\* allowed = true, 'Whitelist disabled' for every certificate.
C9_FailedLoadInstallsDefault ==
    (call.op = "loadWhitelist") =>
        /\ ~call.threw
        /\ call.unloadable =>
              /\ whitelistConfig = DefaultConfig
              /\ \A cert \in Certificates :
                    LET d == checkCertificateWhitelist(whitelistConfig, file, cert)
                    IN  /\ ~d.threw
                        /\ d.allowed
                        /\ d.reason = <<"Whitelist disabled">>
                        /\ d.config = DefaultConfig

\* a failed load that replaced a document held before
C9_Witness ==
    /\ call.op = "loadWhitelist"
    /\ call.unloadable
    /\ call.held
    /\ whitelistConfig = DefaultConfig

\* C10 as stated: a request is decided against the content the whitelist
\* file has when the request is handled, with no restart and no explicit
\* loadWhitelist() call.
C10_DecidedAgainstCurrentFile ==
    (Validated /\ req.out.consulted) =>
        LET fresh == checkCertificateWhitelist(JsNull, file, req.peer)
        IN  /\ req.out.check.threw = fresh.threw
            /\ req.out.check.allowed = fresh.allowed
            /\ req.out.check.reason = fresh.reason

\* what a completed loadWhitelist() leaves behind for the backing file f
LoadedVersion(f) == IF Unloadable(f) THEN DefaultConfig ELSE f.text

\* the digest of the certificate that document d selects
SelectedDigest(d, peer) ==
    IF d.hashAlgorithm \in {"sha256", "SHA256"} THEN peer.fingerprint256
    ELSE peer.fingerprint

\* C11: under every interleaving of requests, file writes and loadWhitelist
\* calls, whitelistConfig is never a partially assigned document, and a
\* request that consults the allow-list is decided against one whole
\* document, the one held when the middleware started or the one a load
\* of the backing file produces: the enabled flag, the compared digest, the
\* entry list of the match and the fingerprint of the attached identity
\* all come from that document.
C11_OneDocumentPerRequest ==
    /\ whitelistConfig \in {JsNull, DefaultConfig} \cup ServerDocs \cup Scalars
    /\ (Validated /\ req.out.consulted /\ ~req.out.check.threw) =>
          /\ whitelistConfig \in {req.held, LoadedVersion(file)}
          /\ ~IsFalsyConfig(req.held) => whitelistConfig = req.held
          /\ req.out.check.allowed =
                (\/ whitelistConfig.whitelistEnabled # JsTrue
                 \/ EnabledMatches(whitelistConfig,
                                   SelectedDigest(whitelistConfig, req.peer)) # {})
          /\ whitelistConfig.whitelistEnabled = JsTrue =>
                /\ req.out.check.fingerprint =
                      SelectedDigest(whitelistConfig, req.peer)
                /\ req.out.check.match \in
                      EnabledMatches(whitelistConfig, req.out.check.fingerprint)
                          \cup {0}
          /\ req.out.clientCertificate.attached =>
                req.out.clientCertificate.fingerprint =
                    SelectedDigest(whitelistConfig, req.peer)

\* a request admitted against the document held since an explicit reload,
\* while the backing file already holds a document with the other algorithm
C11_Witness ==
    /\ Validated
    /\ req.out.stage = "Admit"
    /\ call.op = "loadWhitelist"
    /\ req.held.kind = "object"
    /\ req.held.whitelistEnabled = JsTrue
    /\ file.state = "present"
    /\ file.text.kind = "object"
    /\ file.text.whitelistEnabled = JsTrue
    /\ file.text.hashAlgorithm # req.held.hashAlgorithm
    /\ req.out.clientCertificate.fingerprint =
          SelectedDigest(req.held, req.peer)

\* C12: after a loadWhitelist call, calling loadWhitelist again on the
\* unchanged backing file does not throw and leaves whitelistConfig equal
\* to what it was, and checkCertificateWhitelist returns the same allowed
\* and the same reason for every certificate before and after the reload.
C12_ReloadIdempotent ==
    (call.op = "loadWhitelist") =>
        /\ ~loadWhitelist(whitelistConfig, file).threw
        /\ loadWhitelist(whitelistConfig, file).config = whitelistConfig
        /\ \A cert \in Certificates :
              LET before == checkCertificateWhitelist(whitelistConfig, file, cert)
                  after == checkCertificateWhitelist(
                               loadWhitelist(whitelistConfig, file).config, file, cert)
              IN  /\ after.threw = before.threw
                  /\ after.allowed = before.allowed
                  /\ after.reason = before.reason

\* the call recorded was itself a reload of an enabled document with
\* entries, which denies one certificate and allows another
C12_Witness ==
    /\ call.op = "loadWhitelist"
    /\ call.held
    /\ whitelistConfig.whitelistEnabled = JsTrue
    /\ \E c1 \in Certificates, c2 \in Certificates :
          /\ checkCertificateWhitelist(whitelistConfig, file, c1).allowed
          /\ ~checkCertificateWhitelist(whitelistConfig, file, c2).threw
          /\ ~checkCertificateWhitelist(whitelistConfig, file, c2).allowed

\* C13: in an enabled document configured for 'sha256' only the SHA-256
\* digest of the certificate is compared and in one configured for 'sha1'
\* only the SHA-1 digest: the certificate is allowed exactly when an enabled
\* entry carries that digest, so an entry carrying the other digest does not
\* admit it; after the file has been rewritten and loadWhitelist has
\* replaced the document by one with the other algorithm, the digest of the
\* new algorithm is the one compared.
C13_AlgorithmSelectsDigest ==
    (whitelistConfig.kind = "object"
        /\ whitelistConfig.whitelistEnabled = JsTrue
        /\ whitelistConfig.hashAlgorithm \in {"sha1", "sha256"}) =>
        LET digest(cert) == IF whitelistConfig.hashAlgorithm = "sha256"
                            THEN cert.fingerprint256
                            ELSE cert.fingerprint
        IN  /\ (call.op = "checkCertificateWhitelist") =>
                  /\ ~call.threw
                  /\ call.fingerprint = digest(call.cert)
                  /\ call.allowed <=>
                        EnabledMatches(whitelistConfig, digest(call.cert)) # {}
            /\ (call.op = "reload") =>
                  \A cert \in Certificates :
                      LET d == checkCertificateWhitelist(whitelistConfig, file, cert)
                      IN  /\ ~d.threw
                          /\ d.fingerprint = digest(cert)
                          /\ d.allowed <=>
                                EnabledMatches(whitelistConfig, digest(cert)) # {}

\* a reload has replaced a sha256 document by a sha1 document whose only
\* entries carry the SHA-256 digest of a certificate, which is now denied
C13_Witness ==
    /\ call.op = "reload"
    /\ call.held
    /\ call.replaced = "sha256"
    /\ whitelistConfig.whitelistEnabled = JsTrue
    /\ whitelistConfig.hashAlgorithm = "sha1"
    /\ \E cert \in Certificates :
          /\ cert.fingerprint \in Sha1Digests
          /\ cert.fingerprint256 \in Sha256Digests
          /\ EnabledMatches(whitelistConfig, cert.fingerprint256) # {}
          /\ EnabledMatches(whitelistConfig, cert.fingerprint) = {}
          /\ ~checkCertificateWhitelist(whitelistConfig, file, cert).allowed

\* C14 as stated: getClientFingerprint returns the SHA-256 digest exactly
\* when the hashAlgorithm of the document is "sha256" and the SHA-1 digest
\* for every other value, absent or unrecognized, and raises no fault.
C14_Sha256OnlyWhenExact ==
    (call.op = "getClientFingerprint") =>
        /\ ~call.threw
        /\ call.fingerprint = IF whitelistConfig.hashAlgorithm = "sha256"
                              THEN call.cert.fingerprint256
                              ELSE call.cert.fingerprint

\* C14 amended: getClientFingerprint returns the SHA-256 digest exactly
\* when hashAlgorithm is a string equal to "sha256" up to letter case
\* ("sha256", "SHA256"), and the SHA-1 digest when hashAlgorithm is absent,
\* empty or any other string; a hashAlgorithm that is truthy and not a
\* string raises a TypeError.
C14_Sha256UpToCase ==
    (call.op = "getClientFingerprint") =>
        IF whitelistConfig.hashAlgorithm = NumberAlgorithm
        THEN call.threw
        ELSE /\ ~call.threw
             /\ call.fingerprint =
                    IF whitelistConfig.hashAlgorithm \in {"sha256", "SHA256"}
                    THEN call.cert.fingerprint256
                    ELSE call.cert.fingerprint

\* a document configured with "SHA256" selects the SHA-256 digest
C14_Witness ==
    /\ call.op = "getClientFingerprint"
    /\ whitelistConfig.hashAlgorithm = "SHA256"
    /\ call.cert.fingerprint \in Sha1Digests
    /\ call.cert.fingerprint256 \in Sha256Digests
    /\ call.fingerprint = call.cert.fingerprint256

\* C15 as stated: when the certificate lacks the digest of the configured
\* hash algorithm and the allow-list is enabled, checkCertificateWhitelist
\* raises no fault and returns allowed = false for every entries list,
\* entries without a fingerprint field included.
C15_MissingDigestDenied ==
    (call.op = "checkCertificateWhitelist"
        /\ whitelistConfig.kind = "object"
        /\ whitelistConfig.whitelistEnabled = JsTrue
        /\ whitelistConfig.hashAlgorithm # NumberAlgorithm
        /\ SelectedDigest(whitelistConfig, call.cert) = Undefined) =>
        /\ ~call.threw
        /\ ~call.allowed

\* C16: in every terminal state of validateClientCertificate,
\* req.clientCertificate is attached exactly when the request was admitted
\* (next() called, no response sent); whenever a 401, 403 or 500 response
\* is produced, a fault raised after the allow-list check passed included,
\* req.clientCertificate is not attached.
C16_IdentityIffAdmitted ==
    Validated =>
        /\ req.out.clientCertificate.attached <=> req.out.stage = "Admit"
        /\ req.out.clientCertificate.attached <=> req.out.nextCalled
        /\ req.out.status \in {401, 403, 500} =>
                req.out.clientCertificate = NoIdentity
        /\ req.out.status \in {0, 401, 403, 500}
        /\ req.out.status = 0 <=> req.out.stage = "Admit"
        /\ req.out.stage = "Admit" =>
                req.out.clientCertificate =
                    Identity(req.peer, req.out.clientCertificate.fingerprint)

\* the allow-list check passed and the fingerprint lookup for the identity
\* then threw: answered 500 with nothing attached
C16_Witness ==
    /\ Validated
    /\ req.out.stage = "InternalError"
    /\ req.out.status = 500
    /\ ~req.out.check.threw
    /\ req.out.check.allowed
    /\ ~req.out.clientCertificate.attached

\* an internal fault after the peer certificate was obtained: the allow-list
\* check was reached and it, or the fingerprint lookup that follows it, threw
FaultAfterPeer ==
    /\ req.out.consulted
    /\ \/ checkCertificateWhitelist(req.held, file, req.peer).threw
       \/ getClientFingerprint(
              checkCertificateWhitelist(req.held, file, req.peer).config,
              file, req.peer).threw

\* C17 as stated: every internal fault of validateClientCertificate, a
\* fault while obtaining the peer certificate included, ends in the generic
\* internal-error outcome, and no fault propagates to the caller.
C17_EveryFaultInternalError ==
    Validated =>
        /\ ~req.out.threw
        /\ (req.peer.kind = "throws" \/ FaultAfterPeer) =>
                /\ req.out.stage = "InternalError"
                /\ req.out.status = 500

\* C17 amended: no fault propagates to the caller; a fault thrown by
\* getPeerCertificate is answered 401 'Client certificate validation
\* failed' with details 'Certificate parsing failed'; every other internal
\* fault is answered with the generic outcome, 500 'Internal server error
\* during certificate validation', which no explicit denial (missing
\* certificate, temporal failure, untrusted socket, allow-list rejection)
\* shares in status or error text; next() is called in neither case.
C17_FaultsCaught ==
    Validated =>
        /\ ~req.out.threw
        /\ req.peer.kind = "throws" =>
                /\ req.out.stage = "ParsingFailed"
                /\ req.out.status = 401
                /\ req.out.error = "Client certificate validation failed"
                /\ req.out.details = <<"Certificate parsing failed">>
                /\ ~req.out.nextCalled
        /\ FaultAfterPeer =>
                /\ req.out.stage = "InternalError"
                /\ req.out.status = 500
                /\ req.out.error =
                      "Internal server error during certificate validation"
                /\ req.out.details = <<"Please contact administrator">>
                /\ ~req.out.nextCalled
        /\ req.out.stage \in {"NoCertificate", "NotYetValid", "Expired",
                               "NotAuthorized", "NotWhitelisted"} =>
                /\ req.out.status \in {401, 403}
                /\ req.out.error \in {"Client certificate validation failed",
                                       "Certificate not authorized"}
                /\ req.out.details # <<"Certificate parsing failed">>

\* the allow-list check itself threw on a request that passed every
\* earlier stage
C17_Witness ==
    /\ Validated
    /\ req.out.consulted
    /\ req.out.check.threw
    /\ req.out.stage = "InternalError"
    /\ req.out.status = 500

\* C18: when getPeerCertificate throws, validateClientCertificate does not
\* throw, responds with status 401 and does not call next(); the request
\* reaches no downstream handler.
C18_PeerFaultAnswered401 ==
    (Validated /\ req.peer.kind = "throws") =>
        /\ ~req.out.threw
        /\ req.out.status = 401
        /\ req.status = 401
        /\ ~req.out.nextCalled
        /\ req.pc = "responded"
        /\ req.handler = "none"

\* getPeerCertificate throws on a socket the TLS layer authorized, while an
\* enabled whitelist is on disk
C18_Witness ==
    /\ Validated
    /\ req.peer = ThrowingPeer
    /\ req.sock.authorized
    /\ file.state = "present"
    /\ file.text.whitelistEnabled = JsTrue
    /\ req.out.status = 401
    /\ req.pc = "responded"

\* the allow-list check of the request, made on the document found by the
\* middleware, denies the certificate
AllowListDenies ==
    /\ ~checkCertificateWhitelist(req.held, file, req.peer).threw
    /\ ~checkCertificateWhitelist(req.held, file, req.peer).allowed

C20_FirstEnabledMatchWins ==
    (call.op = "checkCertificateWhitelist"
        /\ whitelistConfig.kind = "object"
        /\ whitelistConfig.whitelistEnabled = JsTrue
        /\ whitelistConfig.hashAlgorithm # NumberAlgorithm) =>
        LET digest == SelectedDigest(whitelistConfig, call.cert)
            matches == EnabledMatches(whitelistConfig, digest)
        IN  matches # {} =>
              /\ call.allowed
              /\ call.match \in matches
              /\ \A i \in matches : call.match <= i
              /\ call.reason =
                    <<"Certificate whitelisted: ",
                      DescriptionText(
                          whitelistConfig.whitelistedCertificates[call.match])>>

\* two enabled entries carry the digest of the certificate and differ in
\* their description; the reason names the first
C20_Witness ==
    /\ call.op = "checkCertificateWhitelist"
    /\ whitelistConfig.whitelistEnabled = JsTrue
    /\ whitelistConfig.hashAlgorithm = "sha1"
    /\ call.cert.fingerprint = "A1"
    /\ EnabledMatches(whitelistConfig, "A1") = {1, 2}
    /\ whitelistConfig.whitelistedCertificates[1].description = Undefined
    /\ whitelistConfig.whitelistedCertificates[2].description # Undefined
    /\ call.match = 1
    /\ call.reason = <<"Certificate whitelisted: ", "No description">>

\* document d with the description of every entry replaced by desc
Redescribe(d, desc) ==
    [d EXCEPT !.whitelistedCertificates =
        [i \in DOMAIN d.whitelistedCertificates |->
            [d.whitelistedCertificates[i] EXCEPT !.description = desc]]]

\* certificate cert presented under another subject, issuer and serial number
Reissue(cert, subject, issuer, serialNumber) ==
    [cert EXCEPT !.subject = subject, !.issuer = issuer,
                 !.serialNumber = serialNumber]

\* C21: the decision of checkCertificateWhitelist does not depend on
\* descriptive data: on a document that differs from the held one only in
\* the descriptions of its entries, and for a certificate that differs from
\* the checked one only in subject, issuer or serial number, the call
\* raises a fault or not, returns the same allowed and compares the same
\* fingerprint as before.
C21_MetadataDoesNotDecide ==
    (call.op = "checkCertificateWhitelist") =>
        \A desc \in {Undefined, "Renamed entry"},
           subject \in {"CN=Demo Client", "CN=Other Client"},
           issuer \in {"CN=Demo CA", "CN=Other CA"},
           serialNumber \in {"01", "02"} :
            LET d == checkCertificateWhitelist(
                         Redescribe(whitelistConfig, desc), file,
                         Reissue(call.cert, subject, issuer, serialNumber))
            IN  /\ d.threw = call.threw
                /\ d.allowed = call.allowed
                /\ d.fingerprint = call.fingerprint
                /\ d.match = call.match

\* a certificate allowed by an entry whose description then changes the
\* reason but not the decision
C21_Witness ==
    /\ call.op = "checkCertificateWhitelist"
    /\ call.allowed
    /\ call.match # 0
    /\ whitelistConfig.whitelistedCertificates[call.match].description # Undefined
    /\ checkCertificateWhitelist(Redescribe(whitelistConfig, Undefined), file,
                                 call.cert).allowed
    /\ checkCertificateWhitelist(Redescribe(whitelistConfig, Undefined), file,
                                 call.cert).reason # call.reason

\* the enabled entries of document d whose fingerprint equals fp up to the
\* letter case of its hex digits
EnabledMatchesUpToCase(d, fp) ==
    {i \in 1..Len(d.whitelistedCertificates) :
        /\ d.whitelistedCertificates[i].enabled = JsTrue
        /\ HexLower(d.whitelistedCertificates[i].fingerprint) = HexLower(fp)}

\* C22 as stated: with an enabled allow-list, an enabled entry whose
\* fingerprint differs from the selected digest of the certificate only in
\* letter case matches, and checkCertificateWhitelist returns allowed = true.
C22_CaseInsensitiveMatch ==
    (call.op = "checkCertificateWhitelist"
        /\ whitelistConfig.kind = "object"
        /\ whitelistConfig.whitelistEnabled = JsTrue
        /\ whitelistConfig.hashAlgorithm # NumberAlgorithm
        /\ SelectedDigest(whitelistConfig, call.cert) # Undefined
        /\ EnabledMatchesUpToCase(whitelistConfig,
                SelectedDigest(whitelistConfig, call.cert)) # {}) =>
        call.allowed

\* C22 amended: the fingerprint comparison is exact and case-sensitive:
\* with an enabled allow-list, a certificate whose selected digest equals
\* the fingerprint of enabled entries only up to letter case, and of no
\* enabled entry exactly, is denied with the 'not found' reason.
C22_CaseSensitiveMatch ==
    (call.op = "checkCertificateWhitelist"
        /\ whitelistConfig.kind = "object"
        /\ whitelistConfig.whitelistEnabled = JsTrue
        /\ whitelistConfig.hashAlgorithm # NumberAlgorithm
        /\ SelectedDigest(whitelistConfig, call.cert) # Undefined
        /\ EnabledMatches(whitelistConfig,
                SelectedDigest(whitelistConfig, call.cert)) = {}) =>
        /\ ~call.threw
        /\ ~call.allowed
        /\ call.match = 0
        /\ call.reason[1] = "Certificate fingerprint not found in whitelist (using "
        /\ call.reason[4] = SelectedDigest(whitelistConfig, call.cert)

\* the only enabled entries carry the digest of the certificate in lower
\* case, and the certificate is denied
C22_Witness ==
    /\ call.op = "checkCertificateWhitelist"
    /\ whitelistConfig.whitelistEnabled = JsTrue
    /\ whitelistConfig.hashAlgorithm = "sha1"
    /\ call.cert.fingerprint = "A1"
    /\ EnabledMatchesUpToCase(whitelistConfig, "A1") # {}
    /\ EnabledMatches(whitelistConfig, "A1") = {}
    /\ ~call.allowed

\* C23: every invocation of validateClientCertificate ends in exactly one
\* of two outcomes: next() is called and no status or body is sent, or one
\* response with a status and a JSON body is sent and next() is not called;
\* never both and never neither.
C23_NextOrResponse ==
    Validated =>
        /\ ~req.out.threw
        /\ \/ /\ req.out.nextCalled
              /\ req.out.status = 0
              /\ req.out.error = ""
              /\ req.out.details = <<>>
           \/ /\ ~req.out.nextCalled
              /\ req.out.status \in {401, 403, 500}
              /\ req.out.error # ""
              /\ req.out.details # <<>>
        /\ req.out.nextCalled <=> (req.pc \in {"log", "route"}
                                     \/ req.handler \in RouteHandlers)

\* next() was called for a certificate matched by an enabled entry and the
\* middleware sent nothing
C23_Witness ==
    /\ Validated
    /\ req.pc = "log"
    /\ req.out.nextCalled
    /\ req.out.status = 0
    /\ req.out.check.match # 0

\* C24: on admission the attached identity copies subject, issuer, serial
\* number, valid_from and valid_to of the presented certificate, its
\* fingerprint is the digest the hashAlgorithm of the document selects,
\* which is the one compared by the allow-list check of the same request
\* whenever that check compared one, and its valid marker is true.
C24_IdentityIsCopy ==
    (Validated /\ req.out.stage = "Admit") =>
        /\ req.out.clientCertificate.attached
        /\ req.out.clientCertificate.subject = req.peer.subject
        /\ req.out.clientCertificate.issuer = req.peer.issuer
        /\ req.out.clientCertificate.serialNumber = req.peer.serialNumber
        /\ req.out.clientCertificate.valid_from = req.peer.valid_from
        /\ req.out.clientCertificate.valid_to = req.peer.valid_to
        /\ req.out.clientCertificate.valid = JsTrue
        /\ req.out.clientCertificate.fingerprint =
                SelectedDigest(whitelistConfig, req.peer)
        /\ whitelistConfig.whitelistEnabled = JsTrue =>
                req.out.clientCertificate.fingerprint = req.out.check.fingerprint
        /\ req.peer \in PeerCertificates

\* admitted under a sha256 document: the identity carries the SHA-256
\* digest that the enabled entry matched
C24_Witness ==
    /\ Validated
    /\ req.out.stage = "Admit"
    /\ whitelistConfig.whitelistEnabled = JsTrue
    /\ whitelistConfig.hashAlgorithm = "sha256"
    /\ req.peer.fingerprint = "A1"
    /\ req.out.check.match # 0
    /\ req.out.clientCertificate.fingerprint = "B1"

\* a step that is a call of checkCertificateWhitelist or getClientFingerprint
LookupCall ==
    /\ file' = file
    /\ call'.op \in {"checkCertificateWhitelist", "getClientFingerprint"}

\* C25 as stated: a lookup made while no document is held performs exactly
\* one loadWhitelist, and once a loadWhitelist call has returned a lookup
\* never reads the backing file or changes the in-memory document.
C25_LoadedOnceOnly ==
    [][LookupCall =>
         IF whitelistConfig = JsNull
         THEN call'.loads = 1
         ELSE call'.loads = 0 /\ whitelistConfig' = whitelistConfig]_vars

\* the string s parses as a date
Parseable(s) == \E t \in Times : s = ToISOString(t)

\* C28 as stated: a certificate whose valid_from or valid_to is missing or
\* does not parse as a date is never admitted: next() is not called for
\* it, whatever the allow-list and socket.authorized are.
C28_UnparseableDatesDenied ==
    (Validated /\ req.peer.kind = "object"
        /\ (~Parseable(req.peer.valid_from) \/ ~Parseable(req.peer.valid_to))) =>
        ~req.out.nextCalled

\* the allow-list the request in flight met is off: the document held, or
\* the one a lazy load takes from the file, has no truthy whitelistEnabled
AllowListOff == WhitelistDisabled(LazyLoad(req.held, file).config)

\* the certificate starts after now, or ended before it
OutsideWindow(peer, now) ==
    \/ \E nb \in Times : peer.valid_from = ToISOString(nb) /\ now < nb
    \/ \E na \in Times : peer.valid_to = ToISOString(na) /\ na < now

\* C29: a disabled allow-list (whitelistEnabled false, or the default after
\* a missing or malformed document) bypasses the allow-list stage only: a
\* request whose certificate is missing or has an empty subject, is not yet
\* valid or expired, or whose socket the TLS layer did not authorize is
\* answered 401 without the allow-list being consulted and never reaches
\* next().
C29_DisabledListKeepsOtherChecks ==
    (Validated /\ AllowListOff /\ req.peer.kind # "throws"
        /\ (\/ ~HasSubject(req.peer)
            \/ OutsideWindow(req.peer, req.now)
            \/ ~req.sock.authorized)) =>
        /\ ~req.out.nextCalled
        /\ req.out.status = 401
        /\ ~req.out.consulted
        /\ ~req.out.clientCertificate.attached

\* an expired certificate on an authorized socket while the file is missing
C29_Witness ==
    /\ Validated /\ AllowListOff
    /\ file.state = "missing"
    /\ HasSubject(req.peer) /\ req.sock.authorized
    /\ OutsideWindow(req.peer, req.now)
    /\ req.out.stage = "Expired"
    /\ req.out.status = 401

\* the files the pre-flight checks and the HTTPS server options ask for
RequiredAtStart ==
    {getCertificatePaths[n] : n \in DOMAIN getCertificatePaths}
        \cup requiredCerts \cup serverOptions

\* the ways a start ends on a certificate or key file that is not there
MissingFileCauses == {"ENOENT", "MissingCertificates"}

\* C26 as stated: after main() of the setup script has completed
\* successfully, every certificate and key file that validateConfig,
\* performPreflightChecks and the HTTPS server options require exists in
\* the certs directory, and a start of the server after it does not exit
\* with an error about missing certificates.
C26_SetupThenStartSucceeds ==
    /\ setup = "ok" => RequiredAtStart \subseteq certs
    /\ (launch.setup = "ok" /\ launch.pc = "exited") =>
            /\ launch.cause \notin MissingFileCauses
            /\ launch.errors \cap DOMAIN getCertificatePaths = {}

\* C27 as stated: in a run of start-server.js the HTTPS server listens only
\* after performPreflightChecks has passed in a start without option; with
\* --help, --version or --check, or after a failed pre-flight check, it
\* never listens.
C27_ListenOnlyAfterPreflight ==
    (launch.script = "scripts/start-server.js" /\ launch.listening) =>
        (launch.args = "none" /\ launch.preflight = "passed")

\* C30 as stated: getEnvironmentConfig(env) leaves the exported config as
\* it was built from the environment, and what it returns for env is what
\* a first call with env returns, whatever calls came before.
C30_EnvironmentConfigIsCopy ==
    envConfig.called =>
        /\ config = ConfigFromEnv(launch.env)
        /\ envConfig.returned =
                getEnvironmentConfig(ConfigFromEnv(launch.env), envConfig.env)

====
